---- MODULE Spec2Model ----
(***************************************************************************)
(* A model of src/main/assetsUtil.ts: loadAssets, the scan of the three    *)
(* asset folders, the per-kind descriptor overlay and admission gate, the  *)
(* removal of duplicate names and the final sort.                          *)
(*                                                                         *)
(* A JavaScript string is a sequence of one-character strings; its UTF-16  *)
(* code units are given by Code.  A JSON value is a record whose field t   *)
(* is the JSON type.                                                       *)
(***************************************************************************)
EXTENDS Integers, Sequences, FiniteSets, TLC

VARIABLES platform, fs, pc, rootIdx, listing, assets, visited,
          legacy, userAssets, calls

\* The state of loadAssets and the state of convertLegacyAssets.
loadVars == <<platform, fs, pc, rootIdx, listing, assets, visited>>

legacyVars == <<legacy, userAssets, calls>>

vars == <<platform, fs, pc, rootIdx, listing, assets, visited, legacy, userAssets, calls>>

(***************************************************************************)
(* Bounds of the model.                                                    *)
(***************************************************************************)
\* The number of entries (directories and files) placed under the three roots.
MaxEntries == 3
\* The number of elements of a descriptor's array (gamePieces, components, ...).
MaxParts == 2

\* The length of the part of a directory name that follows its prefix.
MaxNameLen == 2

\* The number of calls of convertLegacyAssets.
MaxCalls == 3

(***************************************************************************)
(* Strings                                                                 *)
(***************************************************************************)
\* The printable ASCII characters, in code order from 32 (space) to 126 (~); the
\* grave accent (96) is written "<grave>".
Ascii ==
  << " ", "!", "\"", "#", "$", "%", "&", "'", "(", ")", "*", "+", ",", "-", ".", "/",
     "0", "1", "2", "3", "4", "5", "6", "7", "8", "9", ":", ";", "<", "=", ">", "?",
     "@", "A", "B", "C", "D", "E", "F", "G", "H", "I", "J", "K", "L", "M", "N", "O",
     "P", "Q", "R", "S", "T", "U", "V", "W", "X", "Y", "Z", "[", "\\", "]", "^", "_",
     "<grave>", "a", "b", "c", "d", "e", "f", "g", "h", "i", "j", "k", "l", "m", "n", "o",
     "p", "q", "r", "s", "t", "u", "v", "w", "x", "y", "z", "{", "|", "}", "~" >>

AsciiSet == {Ascii[i] : i \in 1..Len(Ascii)}

CodeOf == [c \in AsciiSet |-> 31 + (CHOOSE i \in 1..Len(Ascii) : Ascii[i] = c)]

\* The UTF-16 code unit of a character.
Code(c) == CodeOf[c]

\* A character of the model that stands for every character outside ASCII.
OtherChar == "<other>"

CharOf(n) == IF n - 31 \in 1..Len(Ascii) THEN Ascii[n - 31] ELSE OtherChar

Digits == {"0", "1", "2", "3", "4", "5", "6", "7", "8", "9"}

HexDigits == <<"0", "1", "2", "3", "4", "5", "6", "7", "8", "9", "A", "B", "C", "D", "E", "F">>

RECURSIVE Concat(_)
\* The concatenation of a sequence of strings.
Concat(parts) == IF parts = <<>> THEN <<>> ELSE Head(parts) \o Concat(Tail(parts))

\* String.prototype.startsWith
StartsWith(s, p) == Len(s) >= Len(p) /\ SubSeq(s, 1, Len(p)) = p

\* String.prototype.endsWith
EndsWith(s, p) == Len(s) >= Len(p) /\ SubSeq(s, Len(s) - Len(p) + 1, Len(s)) = p

\* a < b on JavaScript strings: lexicographic on the code units.
StrLess(a, b) ==
  LET differ == {i \in 1..Len(a) : i <= Len(b) /\ a[i] # b[i]}
  IN IF differ = {} THEN Len(a) < Len(b)
     ELSE LET k == CHOOSE i \in differ : \A j \in differ : i <= j
          IN Code(a[k]) < Code(b[k])

RECURSIVE indexToString(_)
\* Number.prototype.toString of a non-negative integer.
indexToString(n) ==
  IF n < 10 THEN <<HexDigits[n + 1]>> ELSE indexToString(n \div 10) \o <<HexDigits[(n % 10) + 1]>>

RECURSIVE Split(_, _)
\* String.prototype.split on a one-character separator.
Split(s, sepChar) ==
  IF \A i \in 1..Len(s) : s[i] # sepChar THEN <<s>>
  ELSE LET k == CHOOSE i \in 1..Len(s) : s[i] = sepChar /\ \A j \in 1..(i - 1) : s[j] # sepChar
       IN <<SubSeq(s, 1, k - 1)>> \o Split(SubSeq(s, k + 1, Len(s)), sepChar)

RECURSIVE JoinWith(_, _)
\* Array.prototype.join with a one-character separator.
JoinWith(parts, sepChar) ==
  IF parts = <<>> THEN <<>>
  ELSE IF Len(parts) = 1 THEN parts[1]
  ELSE parts[1] \o <<sepChar>> \o JoinWith(Tail(parts), sepChar)

(***************************************************************************)
(* Percent-encoding                                                        *)
(***************************************************************************)
\* The characters encodeURIComponent leaves alone: A-Z a-z 0-9 - _ . ! ~ * ' ( )
Unreserved ==
  {Ascii[i] : i \in {j \in 1..Len(Ascii) : (j + 31 \in 65..90) \/ (j + 31 \in 97..122)}}
    \cup Digits \cup {"-", "_", ".", "!", "~", "*", "'", "(", ")"}

RECURSIVE encodeURIComponent(_)
\* encodeURIComponent on ASCII text: every other character becomes %XX.
encodeURIComponent(s) ==
  IF s = <<>> THEN <<>>
  ELSE (IF Head(s) \in Unreserved THEN <<Head(s)>>
        ELSE <<"%", HexDigits[(Code(Head(s)) \div 16) + 1], HexDigits[(Code(Head(s)) % 16) + 1]>>)
       \o encodeURIComponent(Tail(s))

HexValue(c) ==
  IF c \in Digits THEN Code(c) - 48
  ELSE IF c \in {"A", "B", "C", "D", "E", "F"} THEN Code(c) - 55
  ELSE IF c \in {"a", "b", "c", "d", "e", "f"} THEN Code(c) - 87
  ELSE -1

RECURSIVE decodeURIComponent(_)
\* decodeURIComponent: [ok |-> FALSE] stands for the URIError of a malformed escape.
decodeURIComponent(s) ==
  IF s = <<>> THEN [ok |-> TRUE, text |-> <<>>]
  ELSE IF Head(s) # "%" THEN
    LET rest == decodeURIComponent(Tail(s))
    IN IF rest.ok THEN [ok |-> TRUE, text |-> <<Head(s)>> \o rest.text] ELSE rest
  ELSE IF Len(s) < 3 \/ HexValue(s[2]) < 0 \/ HexValue(s[3]) < 0 THEN [ok |-> FALSE, text |-> <<>>]
  ELSE LET rest == decodeURIComponent(SubSeq(s, 4, Len(s)))
           byte == 16 * HexValue(s[2]) + HexValue(s[3])
       IN IF rest.ok THEN [ok |-> TRUE, text |-> <<CharOf(byte)>> \o rest.text] ELSE rest

(***************************************************************************)
(* Paths                                                                   *)
(***************************************************************************)
\* path.sep
sep == IF platform = "win32" THEN "\\" ELSE "/"

\* path.join of already normal segments.
PathJoin(parts) == JoinWith(parts, sep)

\* The encoding of the path as one component, separators and drive letter
\* included.
encodePath_Whole(pathStr) == encodeURIComponent(pathStr)

\* encodePath: every segment percent-encoded, but for a leading drive letter.
encodePath(pathStr) ==
  LET comps == Split(pathStr, sep)
  IN JoinWith([index \in 1..Len(comps) |->
                 IF index = 1 /\ EndsWith(comps[index], <<":">>)
                 THEN comps[index]
                 ELSE encodeURIComponent(comps[index])], sep)

(***************************************************************************)
(* JSON values, as jsonfile.readFileSync returns them                      *)
(***************************************************************************)
JNull == [t |-> "null"]
JBool(b) == [t |-> "boolean", b |-> b]
JNum(n) == [t |-> "number", n |-> n]
JStr(s) == [t |-> "string", s |-> s]
JArr(elems) == [t |-> "array", a |-> elems]
JObj(fields) == [t |-> "object", o |-> fields]

\* typeof x
TypeOf(x) == IF x.t \in {"null", "array", "object"} THEN "object" ELSE x.t

\* Array.isArray(x)
IsArray(x) == x.t = "array"

\* Whether `key in x` raises a TypeError: x is null or a primitive.
InThrows(x) == x.t \notin {"object", "array"}

\* `key in x` for an object or an array x; no key of a descriptor is an index
\* or a property of Array.prototype.
In(key, x) == x.t = "object" /\ key \in DOMAIN x.o

\* "key" in x && typeof x.key === type
HasTyped(x, key, type) == In(key, x) /\ TypeOf(x.o[key]) = type

\* checkArrayType(value, type) of ../shared/util: an array whose elements all
\* have the given typeof.
checkArrayType(value, type) ==
  IsArray(value) /\ \A i \in 1..Len(value.a) : TypeOf(value.a[i]) = type

\* "key" in x && checkArrayType(x.key, type) && x.key.length === n
HasTuple(x, key, type, n) ==
  In(key, x) /\ checkArrayType(x.o[key], type) /\ Len(x.o[key].a) = n

\* The value of a number, a string or a boolean.
PrimitiveOf(x) ==
  CASE x.t = "number" -> x.n
    [] x.t = "string" -> x.s
    [] x.t = "boolean" -> x.b

\* The elements of an array of primitives, as values.
Unwrap(arr) == [i \in 1..Len(arr.a) |-> PrimitiveOf(arr.a[i])]

\* The test of one element of a rotation list (lines 245-250 and alike):
\* "true", "false", or "throw" for the TypeError of `"axis" in null`.
RotationCheck(rotation) ==
  IF TypeOf(rotation) # "object" THEN "false"
  ELSE IF InThrows(rotation) THEN "throw"
  ELSE IF In("axis", rotation)
          /\ rotation.o["axis"] \in {JStr(<<"x">>), JStr(<<"y">>), JStr(<<"z">>)}
          /\ HasTyped(rotation, "degrees", "number")
       THEN "true"
       ELSE "false"

RECURSIVE RotationsEvery(_)
\* rotations.every(...) over a sequence: it stops at the first element that
\* fails the test, and the TypeError of an element ends it.
RotationsEvery(elems) ==
  IF elems = <<>> THEN "true"
  ELSE LET first == RotationCheck(Head(elems))
       IN IF first = "true" THEN RotationsEvery(Tail(elems)) ELSE first

\* "key" in x && Array.isArray(x.key) && x.key.every(rotation test):
\* "true", "false" or "throw".
HasRotations(x, key) ==
  IF In(key, x) /\ IsArray(x.o[key]) THEN RotationsEvery(x.o[key].a) ELSE "false"

(***************************************************************************)
(* The file system and the three asset folders                             *)
(***************************************************************************)
\* fs[r] is the set of entries of the r-th folder; an entry is
\*   [name, isDir, config, files]
\* where config is the content of <name>/config.json ([t |-> "absent"] when
\* there is no such file, [t |-> "unreadable"] when reading or parsing it
\* fails, a JSON value otherwise) and files the other file names in <name>.
Absent == [t |-> "absent"]
Unreadable == [t |-> "unreadable"]
Undefined == [t |-> "undefined"]

\* [getUserAssetsPath(), AUTO_ASSETS, BUNDLED_ASSETS], highest priority first.
ParentFolders ==
  IF platform = "win32"
  THEN << <<"C", ":", "\\", "u", "\\", "m", "y", " ", "a">>,
          <<"C", ":", "\\", "u", "\\", "a", "u", "t", "o">>,
          <<"C", ":", "\\", "a", "#", "1", "\\", "b">> >>
  ELSE << <<"/", "u", "/", "m", "y", " ", "a">>,
          <<"/", "u", "/", "a", "u", "t", "o">>,
          <<"/", "a", "#", "1", "/", "b">> >>

configJson == <<"c", "o", "n", "f", "i", "g", ".", "j", "s", "o", "n">>
imagePng == <<"i", "m", "a", "g", "e", ".", "p", "n", "g">>
modelGlb == <<"m", "o", "d", "e", "l", ".", "g", "l", "b">>
dotGlb == <<".", "g", "l", "b">>

\* fs.existsSync of the path of a file inside an asset directory.
existsSync(p) ==
  \E r \in DOMAIN fs : \E e \in fs[r] :
    e.isDir /\ \E f \in e.files : PathJoin(<<ParentFolders[r], e.name, f>>) = p

\* fs.existsSync(decodeURIComponent(config.path)); a URIError is "throw".
pathExists(encoded) ==
  LET decoded == decodeURIComponent(encoded)
  IN IF ~decoded.ok THEN "throw" ELSE IF existsSync(decoded.text) THEN "true" ELSE "false"

\* fs.existsSync(decodeURIComponent(config.path).slice(0, -4) + "_" + index.toString() + ".glb")
\* for a path that decodes to `decoded`.
auxExists(decoded, index) ==
  existsSync(SubSeq(decoded, 1, Len(decoded) - 4) \o <<"_">> \o indexToString(index) \o dotGlb)

\* The test of the primary model alone.
modelsExist_PrimaryOnly(encoded, count) == pathExists(encoded)

\* fs.existsSync(decodeURIComponent(config.path)) &&
\* values.every((value, index) => auxExists(path, index)) for `count` values.
modelsExist(encoded, count) ==
  LET decoded == decodeURIComponent(encoded)
  IN IF ~decoded.ok THEN "throw"
     ELSE IF existsSync(decoded.text) /\ \A i \in 0..(count - 1) : auxExists(decoded.text, i)
     THEN "true" ELSE "false"

Field2dPrefix == <<"F", "i", "e", "l", "d", "2", "d", "_">>
Field3dPrefix == <<"F", "i", "e", "l", "d", "3", "d", "_">>
RobotPrefix == <<"R", "o", "b", "o", "t", "_">>
JoystickPrefix == <<"J", "o", "y", "s", "t", "i", "c", "k", "_">>

\* Line 147: files and hidden directories are passed over.
IsCandidate(object) == object.isDir /\ ~StartsWith(object.name, <<".">>)

\* Lines 149-152 and the if / else-if chain of lines 164, 223, 328, 459.
Classify(name) ==
  IF StartsWith(name, Field2dPrefix) THEN "field2d"
  ELSE IF StartsWith(name, Field3dPrefix) THEN "field3d"
  ELSE IF StartsWith(name, RobotPrefix) THEN "robot"
  ELSE IF StartsWith(name, JoystickPrefix) THEN "joystick"
  ELSE "none"

\* Lines 154-162: whether the descriptor is read and is a non-null object
\* (an array is one).
ConfigUsable(config) ==
  config # Absent /\ config # Unreadable /\ config # JNull /\ TypeOf(config) = "object"

sAuto == <<"a", "u", "t", "o">>
sRed == <<"r", "e", "d">>
sBlue == <<"b", "l", "u", "e">>

\* The overlay of name, sourceUrl and defaultOrigin, shared by the kinds.
NameOf(raw) == IF HasTyped(raw, "name", "string") THEN raw.o["name"].s ELSE <<>>

SourceUrlOf(raw) == IF HasTyped(raw, "sourceUrl", "string") THEN raw.o["sourceUrl"] ELSE Undefined

DefaultOriginOf(raw) ==
  IF HasTyped(raw, "defaultOrigin", "string") /\ raw.o["defaultOrigin"].s \in {sAuto, sRed, sBlue}
  THEN raw.o["defaultOrigin"].s ELSE sAuto

NumberOf(raw, key, default) == IF HasTyped(raw, key, "number") THEN raw.o[key].n ELSE default

BooleanOf(raw, key, default) == IF HasTyped(raw, key, "boolean") THEN raw.o[key].b ELSE default

TupleOf(raw, key, n, default) ==
  IF HasTuple(raw, key, "number", n) THEN Unwrap(raw.o[key]) ELSE default

RotationsOf(raw, key) == IF HasRotations(raw, key) = "true" THEN raw.o[key].a ELSE <<>>

(***************************************************************************)
(* 2D field, lines 166-222                                                 *)
(***************************************************************************)
BuildField2d(parentFolder, dirName, raw) ==
  [ name |-> NameOf(raw),
    path |-> encodePath(PathJoin(<<parentFolder, dirName, imagePng>>)),
    sourceUrl |-> SourceUrlOf(raw),
    topLeft |-> TupleOf(raw, "topLeft", 2, <<-1, -1>>),
    bottomRight |-> TupleOf(raw, "bottomRight", 2, <<-1, -1>>),
    widthInches |-> NumberOf(raw, "widthInches", 0),
    heightInches |-> NumberOf(raw, "heightInches", 0),
    defaultOrigin |-> DefaultOriginOf(raw) ]

\* The gate without its test of topLeft.
AdmitField2d_NoTopLeft(config) ==
  IF Len(config.name) > 0
     /\ config.bottomRight[1] >= 0
     /\ config.bottomRight[2] >= 0
     /\ config.widthInches > 0
     /\ config.heightInches > 0
  THEN pathExists(config.path)
  ELSE "false"

\* The admission gate of lines 210-219: "true", "false" or "throw".
AdmitField2d(config) ==
  IF Len(config.name) > 0
     /\ config.topLeft[1] >= 0
     /\ config.topLeft[2] >= 0
     /\ config.bottomRight[1] >= 0
     /\ config.bottomRight[2] >= 0
     /\ config.widthInches > 0
     /\ config.heightInches > 0
  THEN pathExists(config.path)
  ELSE "false"

(***************************************************************************)
(* 3D field, lines 225-327                                                 *)
(***************************************************************************)
\* The elements of raw[key] when it is an array, none otherwise.
ElementsOf(raw, key) == IF In(key, raw) /\ IsArray(raw.o[key]) THEN raw.o[key].a ELSE <<>>

\* Lines 279-314: whether building this game piece raises a TypeError.
GamePieceThrows(gamePieceRaw) ==
  InThrows(gamePieceRaw) \/ HasRotations(gamePieceRaw, "rotations") = "throw"

\* Lines 280-313.
BuildGamePiece(gamePieceRaw) ==
  [ name |-> NameOf(gamePieceRaw),
    rotations |-> RotationsOf(gamePieceRaw, "rotations"),
    position |-> TupleOf(gamePieceRaw, "position", 3, <<0, 0, 0>>),
    stagedObjects |-> IF In("stagedObjects", gamePieceRaw)
                         /\ checkArrayType(gamePieceRaw.o["stagedObjects"], "string")
                      THEN Unwrap(gamePieceRaw.o["stagedObjects"]) ELSE <<>> ]

\* Lines 270-277: driverStations is taken when it is six pairs of numbers.
DriverStationsOf(raw) ==
  IF In("driverStations", raw)
     /\ IsArray(raw.o["driverStations"])
     /\ Len(raw.o["driverStations"].a) = 6
     /\ \A i \in 1..6 : checkArrayType(raw.o["driverStations"].a[i], "number")
                         /\ Len(raw.o["driverStations"].a[i].a) = 2
  THEN raw.o["driverStations"]
  ELSE [t |-> "DEFAULT_DRIVER_STATIONS"]

Field3dThrows(raw) ==
  HasRotations(raw, "rotations") = "throw"
    \/ \E i \in 1..Len(ElementsOf(raw, "gamePieces")) :
         GamePieceThrows(ElementsOf(raw, "gamePieces")[i])

BuildField3d(parentFolder, dirName, raw) ==
  [ name |-> NameOf(raw),
    path |-> encodePath(PathJoin(<<parentFolder, dirName, modelGlb>>)),
    sourceUrl |-> SourceUrlOf(raw),
    rotations |-> RotationsOf(raw, "rotations"),
    widthInches |-> NumberOf(raw, "widthInches", 0),
    heightInches |-> NumberOf(raw, "heightInches", 0),
    defaultOrigin |-> DefaultOriginOf(raw),
    driverStations |-> DriverStationsOf(raw),
    gamePieces |-> [i \in 1..Len(ElementsOf(raw, "gamePieces")) |->
                      BuildGamePiece(ElementsOf(raw, "gamePieces")[i])] ]

\* The admission gate of lines 316-324.
AdmitField3d(config) ==
  IF Len(config.name) > 0 /\ config.widthInches > 0 /\ config.heightInches > 0
  THEN modelsExist(config.path, Len(config.gamePieces))
  ELSE "false"

(***************************************************************************)
(* 3D robot, lines 330-458                                                 *)
(***************************************************************************)
CameraThrows(cameraRaw) == InThrows(cameraRaw) \/ HasRotations(cameraRaw, "rotations") = "throw"

\* Lines 374-415.
BuildCamera(cameraRaw) ==
  [ name |-> NameOf(cameraRaw),
    rotations |-> RotationsOf(cameraRaw, "rotations"),
    position |-> TupleOf(cameraRaw, "position", 3, <<0, 0, 0>>),
    resolution |-> TupleOf(cameraRaw, "resolution", 2, <<200, 100>>),
    fov |-> NumberOf(cameraRaw, "fov", 90) ]

ComponentThrows(componentRaw) ==
  InThrows(componentRaw) \/ HasRotations(componentRaw, "zeroedRotations") = "throw"

\* Lines 420-445.
BuildComponent(componentRaw) ==
  [ zeroedRotations |-> RotationsOf(componentRaw, "zeroedRotations"),
    zeroedPosition |-> TupleOf(componentRaw, "zeroedPosition", 3, <<0, 0, 0>>) ]

RobotThrows(raw) ==
  HasRotations(raw, "rotations") = "throw"
    \/ (\E i \in 1..Len(ElementsOf(raw, "cameras")) : CameraThrows(ElementsOf(raw, "cameras")[i]))
    \/ (\E i \in 1..Len(ElementsOf(raw, "components")) :
          ComponentThrows(ElementsOf(raw, "components")[i]))

BuildRobot(parentFolder, dirName, raw) ==
  [ name |-> NameOf(raw),
    path |-> encodePath(PathJoin(<<parentFolder, dirName, modelGlb>>)),
    sourceUrl |-> SourceUrlOf(raw),
    disableSimplification |-> BooleanOf(raw, "disableSimplification", FALSE),
    rotations |-> RotationsOf(raw, "rotations"),
    position |-> TupleOf(raw, "position", 3, <<0, 0, 0>>),
    cameras |-> [i \in 1..Len(ElementsOf(raw, "cameras")) |->
                   BuildCamera(ElementsOf(raw, "cameras")[i])],
    components |-> [i \in 1..Len(ElementsOf(raw, "components")) |->
                      BuildComponent(ElementsOf(raw, "components")[i])] ]

\* The admission gate of lines 448-455.
AdmitRobot(config) ==
  IF Len(config.name) > 0 /\ \A i \in 1..Len(config.cameras) : Len(config.cameras[i].name) > 0
  THEN modelsExist(config.path, Len(config.components))
  ELSE "false"

(***************************************************************************)
(* Joystick, lines 461-601                                                 *)
(***************************************************************************)
sButton == <<"b", "u", "t", "t", "o", "n">>
sJoystick == <<"j", "o", "y", "s", "t", "i", "c", "k">>
sAxis == <<"a", "x", "i", "s">>
sUp == <<"u", "p">>
sRight == <<"r", "i", "g", "h", "t">>
sDown == <<"d", "o", "w", "n">>
sLeft == <<"l", "e", "f", "t">>

\* The selection that takes a component of no known type for a button.
ComponentType_ButtonByDefault(componentRaw) ==
  IF HasTyped(componentRaw, "type", "string")
  THEN IF componentRaw.o["type"].s = sJoystick THEN "joystick"
       ELSE IF componentRaw.o["type"].s = sAxis THEN "axis"
       ELSE "button"
  ELSE "button"

\* Lines 484-485: the variant the component's type selects, "none" when the
\* type is missing, not a string, or none of the three.
ComponentType(componentRaw) ==
  IF HasTyped(componentRaw, "type", "string")
  THEN IF componentRaw.o["type"].s = sButton THEN "button"
       ELSE IF componentRaw.o["type"].s = sJoystick THEN "joystick"
       ELSE IF componentRaw.o["type"].s = sAxis THEN "axis"
       ELSE "none"
  ELSE "none"

\* Lines 487-517.
BuildButton(componentRaw) ==
  [ type |-> "button",
    isYellow |-> BooleanOf(componentRaw, "isYellow", FALSE),
    isEllipse |-> BooleanOf(componentRaw, "isEllipse", FALSE),
    centerPx |-> TupleOf(componentRaw, "centerPx", 2, <<0, 0>>),
    sizePx |-> TupleOf(componentRaw, "sizePx", 2, <<0, 0>>),
    sourceIndex |-> NumberOf(componentRaw, "sourceIndex", -1),
    sourcePov |-> IF HasTyped(componentRaw, "sourcePov", "string")
                     /\ componentRaw.o["sourcePov"].s \in {sUp, sRight, sDown, sLeft}
                  THEN componentRaw.o["sourcePov"] ELSE Undefined ]

\* Lines 522-549.
BuildStick(componentRaw) ==
  [ type |-> "joystick",
    isYellow |-> BooleanOf(componentRaw, "isYellow", FALSE),
    centerPx |-> TupleOf(componentRaw, "centerPx", 2, <<0, 0>>),
    radiusPx |-> NumberOf(componentRaw, "radiusPx", 0),
    xSourceIndex |-> NumberOf(componentRaw, "xSourceIndex", -1),
    xSourceInverted |-> BooleanOf(componentRaw, "xSourceInverted", FALSE),
    ySourceIndex |-> NumberOf(componentRaw, "ySourceIndex", -1),
    ySourceInverted |-> BooleanOf(componentRaw, "ySourceInverted", FALSE),
    buttonSourceIndex |-> IF HasTyped(componentRaw, "buttonSourceIndex", "number")
                          THEN componentRaw.o["buttonSourceIndex"] ELSE Undefined ]

\* Lines 554-578.
BuildAxis(componentRaw) ==
  [ type |-> "axis",
    isYellow |-> BooleanOf(componentRaw, "isYellow", FALSE),
    centerPx |-> TupleOf(componentRaw, "centerPx", 2, <<0, 0>>),
    sizePx |-> TupleOf(componentRaw, "sizePx", 2, <<0, 0>>),
    sourceIndex |-> NumberOf(componentRaw, "sourceIndex", -1),
    sourceRange |-> TupleOf(componentRaw, "sourceRange", 2, <<-1, 1>>) ]

RECURSIVE BuildJoystickComponents(_)
\* Lines 470-583: the components pushed, in the descriptor's order; a
\* component whose type selects no variant pushes nothing.
BuildJoystickComponents(elems) ==
  IF elems = <<>> THEN <<>>
  ELSE (CASE ComponentType(Head(elems)) = "button" -> <<BuildButton(Head(elems))>>
          [] ComponentType(Head(elems)) = "joystick" -> <<BuildStick(Head(elems))>>
          [] ComponentType(Head(elems)) = "axis" -> <<BuildAxis(Head(elems))>>
          [] OTHER -> <<>>)
       \o BuildJoystickComponents(Tail(elems))

\* Line 472: `"isYellow" in componentRaw` raises on null and on a primitive.
JoystickThrows(raw) ==
  \E i \in 1..Len(ElementsOf(raw, "components")) : InThrows(ElementsOf(raw, "components")[i])

BuildJoystick(parentFolder, dirName, raw) ==
  [ name |-> NameOf(raw),
    path |-> encodePath(PathJoin(<<parentFolder, dirName, imagePng>>)),
    components |-> BuildJoystickComponents(ElementsOf(raw, "components")) ]

\* The test of one constructed component, without the test of a button.
ComponentValid_ButtonsPass(component) ==
  CASE component.type = "button" -> TRUE
    [] component.type = "joystick" ->
         component.radiusPx > 0 /\ component.xSourceIndex >= 0 /\ component.ySourceIndex >= 0
    [] component.type = "axis" ->
         component.sizePx[1] > 0 /\ component.sizePx[2] > 0 /\ component.sourceIndex >= 0

\* Lines 587-596: the test of one constructed component.
ComponentValid(component) ==
  CASE component.type = "button" ->
         component.sizePx[1] > 0 /\ component.sizePx[2] > 0 /\ component.sourceIndex >= 0
    [] component.type = "joystick" ->
         component.radiusPx > 0 /\ component.xSourceIndex >= 0 /\ component.ySourceIndex >= 0
    [] component.type = "axis" ->
         component.sizePx[1] > 0 /\ component.sizePx[2] > 0 /\ component.sourceIndex >= 0

\* The admission gate of lines 585-598.
AdmitJoystick(config) ==
  IF Len(config.name) > 0
     /\ \A i \in 1..Len(config.components) : ComponentValid(config.components[i])
  THEN pathExists(config.path)
  ELSE "false"

(***************************************************************************)
(* One candidate directory, lines 147-602                                  *)
(***************************************************************************)
\* The outcome of the callback after the push to loadFailures: status is
\* "admit" (the record is pushed to its collection), "fail" (the callback
\* returns or falls through) or "throw" (it raises).
Outcome(status, kind, config) == [status |-> status, kind |-> kind, config |-> config]

GateStatus(gate) ==
  IF gate = "true" THEN "admit" ELSE IF gate = "throw" THEN "throw" ELSE "fail"

Process(parentFolder, object) ==
  LET kind == Classify(object.name)
      raw == object.config
  IN IF ~ConfigUsable(raw) THEN Outcome("fail", kind, Undefined)
     ELSE CASE kind = "field2d" ->
                 LET config == BuildField2d(parentFolder, object.name, raw)
                 IN Outcome(GateStatus(AdmitField2d(config)), kind, config)
            [] kind = "field3d" ->
                 LET config == BuildField3d(parentFolder, object.name, raw)
                 IN IF Field3dThrows(raw) THEN Outcome("throw", kind, Undefined)
                    ELSE Outcome(GateStatus(AdmitField3d(config)), kind, config)
            [] kind = "robot" ->
                 LET config == BuildRobot(parentFolder, object.name, raw)
                 IN IF RobotThrows(raw) THEN Outcome("throw", kind, Undefined)
                    ELSE Outcome(GateStatus(AdmitRobot(config)), kind, config)
            [] kind = "joystick" ->
                 LET config == BuildJoystick(parentFolder, object.name, raw)
                 IN IF JoystickThrows(raw) THEN Outcome("throw", kind, Undefined)
                    ELSE Outcome(GateStatus(AdmitJoystick(config)), kind, config)
            [] OTHER -> Outcome("fail", kind, Undefined)

\* The removal of the first entry, whatever it is: list.splice(0, 1).
SpliceIndexOf_First(list, name) == Tail(list)

\* list.splice(list.indexOf(name), 1): the first entry equal to name is
\* removed; indexOf gives -1 when there is none, and splice(-1, 1) removes
\* the last entry.
SpliceIndexOf(list, name) ==
  IF \E i \in 1..Len(list) : list[i] = name
  THEN LET k == CHOOSE i \in 1..Len(list) : list[i] = name /\ \A j \in 1..(i - 1) : list[j] # name
       IN SubSeq(list, 1, k - 1) \o SubSeq(list, k + 1, Len(list))
  ELSE SubSeq(list, 1, Len(list) - 1)

\* The collection of `assets` a kind's records are pushed to.
CollectionOf(kind) ==
  CASE kind = "field2d" -> "field2ds"
    [] kind = "field3d" -> "field3ds"
    [] kind = "robot" -> "robots"
    [] kind = "joystick" -> "joysticks"

\* The push without the removal from loadFailures.
PushAndRemove_NoSplice(a, kind, config, dirName) ==
  [a EXCEPT ![CollectionOf(kind)] = Append(@, config)]

\* assets.<collection>.push(config); assets.loadFailures.splice(indexOf(name), 1)
PushAndRemove(a, kind, config, dirName) ==
  [a EXCEPT ![CollectionOf(kind)] = Append(@, config),
            !["loadFailures"] = SpliceIndexOf(@, dirName)]

(***************************************************************************)
(* Sorting                                                                 *)
(***************************************************************************)
\* Array.prototype.sort with a comparator that is a total order on the
\* elements: each element is placed after those that compare at or below it.
SortBy(list, Cmp(_, _)) ==
  LET Insert(sorted, x) ==
        LET k == Cardinality({i \in 1..Len(sorted) : Cmp(sorted[i], x) <= 0})
        IN SubSeq(sorted, 1, k) \o <<x>> \o SubSeq(sorted, k + 1, Len(sorted))
      sortedUpTo[i \in 0..Len(list)] ==
        IF i = 0 THEN <<>> ELSE Insert(sortedUpTo[i - 1], list[i])
  IN sortedUpTo[Len(list)]

\* The comparator of an ascending sort.
CompareEntries_Ascending(a, b) ==
  IF StrLess(a.name, b.name) THEN -1 ELSE IF StrLess(b.name, a.name) THEN 1 ELSE 0

\* Line 145: (a, b) => (a.name < b.name ? 1 : a.name > b.name ? -1 : 0)
CompareEntries(a, b) ==
  IF StrLess(a.name, b.name) THEN 1 ELSE IF StrLess(b.name, a.name) THEN -1 ELSE 0

sEvergreen == <<"E", "v", "e", "r", "g", "r", "e", "e", "n">>

\* The comparator with the two results of the name comparison exchanged.
CompareField2d_Ascending(a, b) ==
  IF a.name = sEvergreen THEN 1
  ELSE IF b.name = sEvergreen THEN -1
  ELSE IF StrLess(b.name, a.name) THEN 1 ELSE IF StrLess(a.name, b.name) THEN -1 ELSE 0

\* Lines 639-643.
CompareField2d(a, b) ==
  IF a.name = sEvergreen THEN 1
  ELSE IF b.name = sEvergreen THEN -1
  ELSE IF StrLess(b.name, a.name) THEN -1 ELSE IF StrLess(a.name, b.name) THEN 1 ELSE 0

\* Lines 646 and 652: (a, b) => (a.name > b.name ? -1 : b.name > a.name ? 1 : 0)
CompareByNameDescending(a, b) ==
  IF StrLess(b.name, a.name) THEN -1 ELSE IF StrLess(a.name, b.name) THEN 1 ELSE 0

\* The characters that are neither digits nor letters, in the order of the
\* root collation (white space, punctuation, symbols).
CollationOrder ==
  << " ", "_", "-", ",", ";", ":", "!", "?", ".", "'", "\"", "(", ")", "[", "]", "{", "}",
     "@", "*", "/", "\\", "&", "#", "%", "<grave>", "^", "+", "<", "=", ">", "|", "~", "$" >>

IsUpper(c) == Code(c) \in 65..90
IsLower(c) == Code(c) \in 97..122

\* The primary weight of a character that is not a digit: the symbols first,
\* then (after the digits) the letters without regard to case.
PrimaryWeight(c) ==
  IF IsUpper(c) THEN Len(CollationOrder) + 2 + (Code(c) - 65)
  ELSE IF IsLower(c) THEN Len(CollationOrder) + 2 + (Code(c) - 97)
  ELSE CHOOSE i \in 1..Len(CollationOrder) : CollationOrder[i] = c

DigitWeight == Len(CollationOrder) + 1

RECURSIVE DigitsValue(_)
DigitsValue(s) == IF s = <<>> THEN 0 ELSE 10 * DigitsValue(SubSeq(s, 1, Len(s) - 1)) + (Code(s[Len(s)]) - 48)

\* The length of the run of digits s starts with.
DigitRun(s) == Cardinality({i \in 1..Len(s) : \A j \in 1..i : s[j] \in Digits})

RECURSIVE CollationKey(_)
\* The primary key under { numeric: true }: a run of digits is one element
\* that carries the run's value.
CollationKey(s) ==
  IF s = <<>> THEN <<>>
  ELSE IF Head(s) \in Digits
  THEN <<DigitWeight, DigitsValue(SubSeq(s, 1, DigitRun(s)))>>
         \o CollationKey(SubSeq(s, DigitRun(s) + 1, Len(s)))
  ELSE <<PrimaryWeight(Head(s))>> \o CollationKey(Tail(s))

\* The tertiary key: lower case before upper case.
CaseKey(s) == [i \in 1..Len(s) |-> IF IsUpper(s[i]) THEN 1 ELSE 0]

RECURSIVE KeyCompare(_, _)
KeyCompare(k1, k2) ==
  IF k1 = <<>> /\ k2 = <<>> THEN 0
  ELSE IF k1 = <<>> THEN -1
  ELSE IF k2 = <<>> THEN 1
  ELSE IF Head(k1) < Head(k2) THEN -1
  ELSE IF Head(k1) > Head(k2) THEN 1
  ELSE KeyCompare(Tail(k1), Tail(k2))

\* The comparison without { numeric: true }: digit by digit.
localeCompare_NotNumeric(a, b) ==
  IF StrLess(a, b) THEN -1 ELSE IF StrLess(b, a) THEN 1 ELSE 0

\* a.localeCompare(b, undefined, { numeric: true }) on ASCII text.
localeCompareNumeric(a, b) ==
  IF KeyCompare(CollationKey(a), CollationKey(b)) # 0
  THEN KeyCompare(CollationKey(a), CollationKey(b))
  ELSE KeyCompare(CaseKey(a), CaseKey(b))

\* Line 649.
CompareRobots(a, b) == localeCompareNumeric(a.name, b.name)

(***************************************************************************)
(* Removal of duplicate names and the final sort, lines 606-657            *)
(***************************************************************************)
\* The removal that keeps the last record of a name instead of the first.
RemoveDuplicateNames_KeepLast(list) ==
  LET keep == {i \in 1..Len(list) : \A j \in (i + 1)..Len(list) : list[j].name # list[i].name}
      keptUpTo[i \in 0..Len(list)] ==
        IF i = 0 THEN <<>>
        ELSE IF i \in keep THEN Append(keptUpTo[i - 1], list[i]) ELSE keptUpTo[i - 1]
  IN keptUpTo[Len(list)]

\* Lines 614-618: a record is kept when no record kept before has its name.
RemoveDuplicateNames(list) ==
  LET keptUpTo[i \in 0..Len(list)] ==
        IF i = 0 THEN <<>>
        ELSE IF \E j \in 1..Len(keptUpTo[i - 1]) : keptUpTo[i - 1][j].name = list[i].name
        THEN keptUpTo[i - 1]
        ELSE Append(keptUpTo[i - 1], list[i])
  IN keptUpTo[Len(list)]

\* Lines 607-634.
UniqueAssets(a) ==
  [ field2ds |-> RemoveDuplicateNames(a.field2ds),
    field3ds |-> RemoveDuplicateNames(a.field3ds),
    robots |-> RemoveDuplicateNames(a.robots),
    joysticks |-> RemoveDuplicateNames(a.joysticks),
    loadFailures |-> a.loadFailures ]

\* Lines 637-656.
SortAssets(a) ==
  [ field2ds |-> SortBy(a.field2ds, CompareField2d),
    field3ds |-> SortBy(a.field3ds, CompareByNameDescending),
    robots |-> SortBy(a.robots, CompareRobots),
    joysticks |-> SortBy(a.joysticks, CompareByNameDescending),
    loadFailures |-> SortBy(a.loadFailures, localeCompareNumeric) ]

(***************************************************************************)
(* loadAssets as a state machine                                           *)
(***************************************************************************)
\* pc is "scan" while the folders are read, "done" once loadAssets has
\* returned `assets`, "threw" once it has raised.  rootIdx is the index of the
\* folder being read (0 before the first) and listing what is left of its
\* sorted entries.  visited records, for every candidate directory the
\* callback has handled, its folder, its name and what became of it.

RECURSIVE SetToSeq(_)
\* The entries of a folder in the order fs.readdirSync gives them.
SetToSeq(S) ==
  IF S = {} THEN <<>> ELSE LET x == CHOOSE y \in S : TRUE IN <<x>> \o SetToSeq(S \ {x})

\* Lines 144-145: the entries of a folder, sorted by name, greatest first.
SortedEntries(r) == SortBy(SetToSeq(fs[r]), CompareEntries)

EmptyAssets ==
  [field2ds |-> <<>>, field3ds |-> <<>>, robots |-> <<>>, joysticks |-> <<>>, loadFailures |-> <<>>]

\* The push made only for a directory that a prefix matches.
AssumeFailure_PrefixedOnly(a, dirName) ==
  IF Classify(dirName) = "none" THEN a ELSE [a EXCEPT !.loadFailures = Append(@, dirName)]

\* Line 148: assets.loadFailures.push(object.name)
AssumeFailure(a, dirName) == [a EXCEPT !.loadFailures = Append(@, dirName)]

\* Line 143: the forEach over the folders reaches the next folder.
ScanRoot ==
  /\ pc = "scan"
  /\ listing = <<>>
  /\ rootIdx < Len(ParentFolders)
  /\ rootIdx' = rootIdx + 1
  /\ listing' = SortedEntries(rootIdx + 1)
  /\ UNCHANGED <<platform, fs, pc, assets, visited, legacy, userAssets, calls>>

\* Lines 146-603: the callback on the next entry of the folder.
VisitEntry ==
  /\ pc = "scan"
  /\ listing # <<>>
  /\ \E object \in {Head(listing)} :
       IF ~IsCandidate(object)
       THEN UNCHANGED <<pc, assets, visited>>
       ELSE \E out \in {Process(ParentFolders[rootIdx], object)} :
              /\ assets' = IF out.status = "admit"
                           THEN PushAndRemove(AssumeFailure(assets, object.name),
                                              out.kind, out.config, object.name)
                           ELSE AssumeFailure(assets, object.name)
              /\ pc' = IF out.status = "throw" THEN "threw" ELSE "scan"
              /\ visited' = Append(visited,
                     [ root |-> rootIdx, dir |-> object.name, kind |-> out.kind,
                       status |-> out.status,
                       name |-> IF out.status = "admit" THEN out.config.name ELSE <<>>,
                       path |-> IF out.status = "admit" THEN out.config.path ELSE <<>> ])
  /\ listing' = Tail(listing)
  /\ UNCHANGED <<platform, fs, rootIdx, legacy, userAssets, calls>>

\* Lines 606-657: after the last folder, the duplicates are removed, the
\* lists sorted and the result returned.
Finish ==
  /\ pc = "scan"
  /\ listing = <<>>
  /\ rootIdx = Len(ParentFolders)
  /\ assets' = SortAssets(UniqueAssets(assets))
  /\ pc' = "done"
  /\ UNCHANGED <<platform, fs, rootIdx, listing, visited, legacy, userAssets, calls>>

Next == ScanRoot \/ VisitEntry \/ Finish

(***************************************************************************)
(* The file systems loadAssets is run on                                   *)
(***************************************************************************)
\* loadAssets is run with no legacy folder and no call of the conversion.
NoLegacy ==
  /\ legacy = [exists |-> FALSE, files |-> {}, bad |-> {}]
  /\ userAssets = {}
  /\ calls = <<>>

RECURSIVE SubsetsUpTo(_, _)
\* The subsets of S of at most k elements.
SubsetsUpTo(S, k) ==
  IF k = 0 THEN {{}}
  ELSE LET smaller == SubsetsUpTo(S, k - 1)
       IN smaller \cup {T \cup {x} : T \in smaller, x \in S}

\* A placement is an entry with the folder it is in; no folder holds two
\* entries of one name.
Placed(root, name, isDir, config, files) ==
  [root |-> root, name |-> name, isDir |-> isDir, config |-> config, files |-> files]

NamesDistinct(chosen) ==
  \A e1, e2 \in chosen : (e1.root = e2.root /\ e1.name = e2.name) => e1 = e2

FolderOf(chosen, r) ==
  {[name |-> e.name, isDir |-> e.isDir, config |-> e.config, files |-> e.files] :
     e \in {c \in chosen : c.root = r}}

\* loadAssets starts on a file system made of at most MaxEntries placements
\* drawn from pool, a sequence of placements.
InitFrom(pool, platforms) ==
  /\ platform \in platforms
  /\ \E picked \in SubsetsUpTo(1..Len(pool), MaxEntries) :
       /\ NamesDistinct({pool[i] : i \in picked})
       /\ fs = [r \in 1..3 |-> FolderOf({pool[i] : i \in picked}, r)]
  /\ pc = "scan"
  /\ rootIdx = 0
  /\ listing = <<>>
  /\ assets = EmptyAssets
  /\ visited = <<>>
  /\ NoLegacy

\* Descriptors that pass the admission gate of their kind.
Field2dConfig(name) ==
  JObj([ name |-> JStr(name),
         topLeft |-> JArr(<<JNum(0), JNum(0)>>),
         bottomRight |-> JArr(<<JNum(8), JNum(4)>>),
         widthInches |-> JNum(16),
         heightInches |-> JNum(8) ])

Field3dConfig(name) ==
  JObj([name |-> JStr(name), widthInches |-> JNum(16), heightInches |-> JNum(8)])

RobotConfig(name) == JObj([name |-> JStr(name)])

JoystickConfig(name) == JObj([name |-> JStr(name), components |-> JArr(<<>>)])

ValidConfig(kind, name) ==
  CASE kind = "field2d" -> Field2dConfig(name)
    [] kind = "field3d" -> Field3dConfig(name)
    [] kind = "robot" -> RobotConfig(name)
    [] kind = "joystick" -> JoystickConfig(name)

PrefixOf(kind) ==
  CASE kind = "field2d" -> Field2dPrefix
    [] kind = "field3d" -> Field3dPrefix
    [] kind = "robot" -> RobotPrefix
    [] kind = "joystick" -> JoystickPrefix

\* The primary file of a record of the kind.
PrimaryFile(kind) == IF kind \in {"field2d", "joystick"} THEN imagePng ELSE modelGlb

Roots == 1..3

sMisc == <<"M", "i", "s", "c">>
sDotGit == <<".", "g", "i", "t">>
sReadme == <<"R", "E", "A", "D", "M", "E", ".", "t", "x", "t">>

\* The directories of a kind with the given titles and descriptors, each
\* holding the kind's primary file.
KindDirs(r, kind, titles, configs) ==
  {Placed(r, PrefixOf(kind) \o t, TRUE, c, {PrimaryFile(kind)}) : t \in titles, c \in configs}

\* Directories of the four kinds whose display names meet across folders,
\* inside one folder and across kinds, directories without a usable
\* descriptor, a directory no prefix matches, a hidden directory and a file.
LoadPool ==
  UNION {
    KindDirs(r, "field2d", {<<"A">>}, {Field2dConfig(<<"X">>), Absent})
    \cup KindDirs(r, "field2d", {<<"B">>}, {Field2dConfig(<<"X">>)})
    \cup KindDirs(r, "robot", {<<"A">>}, {RobotConfig(<<"X">>), Unreadable})
    \cup KindDirs(r, "field3d", {<<"A">>}, {Field3dConfig(<<"X">>)})
    \cup KindDirs(r, "joystick", {<<"A">>}, {JoystickConfig(<<"X">>)})
    \cup {Placed(r, sMisc, TRUE, Field2dConfig(<<"X">>), {imagePng})}
    : r \in Roots }
  \cup {Placed(1, sDotGit, TRUE, Field2dConfig(<<"X">>), {imagePng}),
        Placed(1, sReadme, FALSE, Absent, {})}

LoadPoolSeq == SetToSeq(LoadPool)

Init == InitFrom(LoadPoolSeq, {"posix"})

Spec == Init /\ [][Next]_vars

(***************************************************************************)
(* File systems for the final sort                                         *)
(***************************************************************************)
sAlpha == <<"A", "l", "p", "h", "a">>
sZeta == <<"Z", "e", "t", "a">>
sLowerAlpha == <<"a", "l", "p", "h", "a">>
sRobotSpace == <<"R", "o", "b", "o", "t", " ">>
sRobot1 == sRobotSpace \o <<"1">>
sRobot2 == sRobotSpace \o <<"2">>
sRobot10 == sRobotSpace \o <<"1", "0">>

\* Valid 2D fields and robots of the user folder, whose three directory
\* titles take the display names in every order.
SortPool ==
  KindDirs(1, "field2d", {<<"A">>, <<"B">>, <<"C">>},
           {Field2dConfig(n) : n \in {sAlpha, sEvergreen, sZeta, sLowerAlpha}})
  \cup KindDirs(1, "robot", {<<"A">>, <<"B">>, <<"C">>},
                {RobotConfig(n) : n \in {sRobot1, sRobot2, sRobot10}})

SortPoolSeq == SetToSeq(SortPool)

InitSort == InitFrom(SortPoolSeq, {"posix"})

SpecSort == InitSort /\ [][Next]_vars

(***************************************************************************)
(* File systems with one directory under test                              *)
(***************************************************************************)
\* The object with the fields of `pairs` (<<key, value>>) whose value is not
\* Absent.
MakeObj(pairs) ==
  LET present == {i \in 1..Len(pairs) : pairs[i][2] # Absent}
  IN JObj([key \in {pairs[i][1] : i \in present} |->
             pairs[CHOOSE i \in present : pairs[i][1] = key][2]])

Pair(x, y) == JArr(<<JNum(x), JNum(y)>>)

\* A valid 2D field of the user folder and a valid robot of the bundled
\* folder: the directories scanned before and after the one under test.
Companions ==
  {Placed(1, Field2dPrefix \o <<"Z">>, TRUE, Field2dConfig(sZeta), {imagePng}),
   Placed(3, RobotPrefix \o <<"Z">>, TRUE, RobotConfig(sRobot1), {modelGlb})}

\* loadAssets starts on the companions and one placement of `pool`.
InitOne(pool, platforms) ==
  /\ platform \in platforms
  /\ \E p \in pool : fs = [r \in 1..3 |-> FolderOf(Companions \cup {p}, r)]
  /\ pc = "scan"
  /\ rootIdx = 0
  /\ listing = <<>>
  /\ assets = EmptyAssets
  /\ visited = <<>>
  /\ NoLegacy

\* Values that are not JSON objects, and a descriptor that is missing or
\* cannot be read.
NonObjects == {Absent, Unreadable, JNull, JNum(1), JStr(<<"X">>), JBool(TRUE), JArr(<<>>)}

\* 2D field descriptors: every field absent, valid, out of range or of a
\* wrong shape.
Field2dDescriptors ==
  {MakeObj(<< <<"name", n>>, <<"topLeft", tl>>, <<"bottomRight", br>>,
              <<"widthInches", w>>, <<"heightInches", h>> >>) :
     n \in {Absent, JStr(<<>>), JStr(<<"X">>), JNum(5)},
     tl \in {Absent, Pair(0, 0), Pair(-1, 0), Pair(0, -1), JArr(<<JNum(0)>>),
             JArr(<<JStr(<<"0">>), JNum(0)>>), JNum(0)},
     br \in {Absent, Pair(8, 4), Pair(8, -1), Pair(-1, 4)},
     w \in {Absent, JNum(16), JNum(0), JStr(<<"1", "6">>)},
     h \in {Absent, JNum(8), JNum(-8)}}
  \cup NonObjects

Field2dPool ==
  {Placed(2, Field2dPrefix \o <<"A">>, TRUE, c, f) :
     c \in Field2dDescriptors, f \in {{imagePng}, {}}}

InitField2d == InitOne(Field2dPool, {"posix", "win32"})

SpecField2d == InitField2d /\ [][Next]_vars

\* Joystick components: each variant valid and with one test of lines
\* 587-596 failing, types that select no variant, and elements that are not
\* objects.
Button(size, sourceIndex) ==
  MakeObj(<< <<"type", JStr(sButton)>>, <<"sizePx", size>>, <<"sourceIndex", sourceIndex>> >>)

Stick(radiusPx, xSourceIndex, ySourceIndex) ==
  MakeObj(<< <<"type", JStr(sJoystick)>>, <<"radiusPx", radiusPx>>,
             <<"xSourceIndex", xSourceIndex>>, <<"ySourceIndex", ySourceIndex>> >>)

Axis(size, sourceIndex) ==
  MakeObj(<< <<"type", JStr(sAxis)>>, <<"sizePx", size>>, <<"sourceIndex", sourceIndex>> >>)

JoystickComponents ==
  << Button(Pair(10, 5), JNum(0)), Button(Pair(0, 5), JNum(0)), Button(Pair(10, 0), JNum(0)),
     Button(Absent, JNum(0)), Button(Pair(10, 5), JNum(-1)), Button(JArr(<<JNum(10)>>), JNum(0)),
     Stick(JNum(30), JNum(0), JNum(1)), Stick(JNum(0), JNum(0), JNum(1)),
     Stick(JNum(30), JNum(-1), JNum(1)), Stick(JNum(30), JNum(0), Absent),
     Axis(Pair(4, 20), JNum(2)), Axis(Pair(4, 20), Absent),
     MakeObj(<< <<"type", JStr(<<"d", "p", "a", "d">>)>>, <<"sizePx", Pair(0, 0)>> >>),
     MakeObj(<< <<"sizePx", Pair(0, 0)>> >>),
     MakeObj(<< <<"type", JNum(1)>> >>),
     JNull, JNum(7) >>

\* The sequences over 1..n of a length up to len.
SeqsUpTo(n, len) == UNION {[1..k -> 1..n] : k \in 0..len}

JoystickDescriptors ==
  {MakeObj(<< <<"name", n>>,
              <<"components", JArr([k \in DOMAIN ix |-> JoystickComponents[ix[k]]])>> >>) :
     n \in {JStr(<<"X">>), JStr(<<>>)}, ix \in SeqsUpTo(Len(JoystickComponents), MaxParts)}
  \cup {MakeObj(<< <<"name", JStr(<<"X">>)>>, <<"components", JNum(3)>> >>),
        MakeObj(<< <<"name", JStr(<<"X">>)>> >>)}
  \cup NonObjects

JoystickPool ==
  {Placed(2, JoystickPrefix \o <<"A">>, TRUE, c, f) :
     c \in JoystickDescriptors, f \in {{imagePng}, {}}}

InitJoystick == InitOne(JoystickPool, {"posix", "win32"})

SpecJoystick == InitJoystick /\ [][Next]_vars

\* model_<k>.glb, for k below 10.
AuxFile(k) == <<"m", "o", "d", "e", "l", "_", HexDigits[k + 1]>> \o dotGlb

\* n descriptors of game pieces or of components, all without fields.
Parts(n) == JArr([k \in 1..n |-> MakeObj(<<>>)])

\* 3D field and robot descriptors with up to MaxParts game pieces or
\* components, the other conditions of the gate holding or not.
Field3dDescriptors ==
  {MakeObj(<< <<"name", n>>, <<"widthInches", w>>, <<"heightInches", JNum(8)>>,
              <<"gamePieces", g>> >>) :
     n \in {JStr(<<"X">>), JStr(<<>>)}, w \in {JNum(16), JNum(0)},
     g \in {Absent} \cup {Parts(k) : k \in 0..MaxParts}}

RobotDescriptors ==
  {MakeObj(<< <<"name", n>>, <<"cameras", c>>, <<"components", g>> >>) :
     n \in {JStr(<<"X">>), JStr(<<>>)},
     c \in {Absent, JArr(<<MakeObj(<< <<"name", JStr(<<"c">>)>> >>)>>),
            JArr(<<MakeObj(<< <<"name", JStr(<<"c">>)>> >>), MakeObj(<<>>)>>)},
     g \in {Absent} \cup {Parts(k) : k \in 0..MaxParts}}

ModelFiles == SUBSET ({modelGlb} \cup {AuxFile(k) : k \in 0..(MaxParts - 1)})

PartsPool ==
  {Placed(r, Field3dPrefix \o <<"A">>, TRUE, c, f) :
     r \in 1..3, c \in Field3dDescriptors, f \in ModelFiles}
  \cup {Placed(r, RobotPrefix \o <<"A">>, TRUE, c, f) :
          r \in 1..3, c \in RobotDescriptors, f \in ModelFiles}

InitParts == InitOne(PartsPool, {"posix", "win32"})

SpecParts == InitParts /\ [][Next]_vars

\* A rotation { axis, degrees }.
Rotation(axis, degrees) == MakeObj(<< <<"axis", JStr(<<axis>>)>>, <<"degrees", JNum(degrees)>> >>)

\* Values of a rotations field: absent, well formed, and of a wrong shape,
\* null among the elements or not.
RotationLists ==
  {Absent, JArr(<<Rotation("x", 90)>>), JArr(<<Rotation("w", 90)>>), JStr(<<"x">>),
   JArr(<<JNum(5)>>), JArr(<<JNull>>), JArr(<<Rotation("x", 90), JNull>>),
   JArr(<<JNum(5), JNull>>)}

\* Values of an array of sub-objects: absent, one object, not an array, and
\* with an element that is null, a number or a string.
PartLists(part) ==
  {Absent, JArr(<<part>>), JNum(3), JArr(<<JNull>>), JArr(<<JNum(1)>>), JArr(<<JStr(<<"s">>)>>)}

MalformedDescriptors(kind) ==
  CASE kind = "robot" ->
         {MakeObj(<< <<"name", JStr(<<"X">>)>>, <<"rotations", r>>, <<"cameras", c>>,
                     <<"components", g>>, <<"position", p>>, <<"disableSimplification", d>> >>) :
            r \in RotationLists,
            c \in PartLists(MakeObj(<< <<"name", JStr(<<"c">>)>>, <<"rotations", JArr(<<JNull>>)>> >>)),
            g \in PartLists(MakeObj(<<>>)),
            p \in {Absent, Pair(1, 2), JArr(<<JNum(1), JNum(2), JNum(3)>>)},
            d \in {Absent, JNum(1), JBool(TRUE)}}
    [] kind = "field3d" ->
         {MakeObj(<< <<"name", n>>, <<"widthInches", w>>, <<"heightInches", JNum(8)>>,
                     <<"rotations", r>>, <<"gamePieces", g>> >>) :
            n \in {JStr(<<"X">>), JNum(5)}, w \in {JNum(16), JStr(<<"1", "6">>)},
            r \in RotationLists, g \in PartLists(MakeObj(<<>>))}
    [] kind = "joystick" ->
         {MakeObj(<< <<"name", JStr(<<"X">>)>>, <<"components", g>> >>) :
            g \in PartLists(Button(Pair(10, 5), JNum(0)))}
    [] kind = "field2d" ->
         {MakeObj(<< <<"name", JStr(<<"X">>)>>, <<"topLeft", tl>>, <<"bottomRight", Pair(8, 4)>>,
                     <<"widthInches", JNum(16)>>, <<"heightInches", JNum(8)>> >>) :
            tl \in {Absent, Pair(0, 0), JNull, JArr(<<JNull, JNull>>)}}

\* One candidate of each kind in the auto-managed folder, with every file
\* its gate may ask for, and a descriptor that is malformed, unusable or
\* well formed.
MalformedPool ==
  {Placed(2, PrefixOf(kind) \o <<"A">>, TRUE, c, {imagePng, modelGlb, AuxFile(0)}) :
     kind \in {"field2d", "field3d", "robot", "joystick"},
     c \in UNION {MalformedDescriptors(k) : k \in {"field2d", "field3d", "robot", "joystick"}}
             \cup NonObjects}

InitMalformed == InitOne(MalformedPool, {"posix"})

SpecMalformed == InitMalformed /\ [][Next]_vars

\* The characters of the directory names given to encodePath: a letter, the
\* space, "#", and what an escape is written with.
PathChars == <<"a", " ", "#", "%", "2", "0">>

\* The directory names Field2d_<suffix>, with a suffix of up to MaxNameLen of
\* these characters.
PathNames ==
  {Field2dPrefix \o [k \in DOMAIN ix |-> PathChars[ix[k]]] :
     ix \in SeqsUpTo(Len(PathChars), MaxNameLen)}

\* A valid 2D field under each of these names, in each folder.
PathPool ==
  {Placed(r, n, TRUE, Field2dConfig(<<"X">>), {imagePng}) : r \in 1..3, n \in PathNames}

InitPath == InitOne(PathPool, {"posix", "win32"})

SpecPath == InitPath /\ [][Next]_vars

(***************************************************************************)
(* convertLegacyAssets, lines 56-130                                       *)
(***************************************************************************)
\* legacy is the folder LEGACY_ASSETS: whether it exists, the names of its
\* entries, and those of its .json files that jsonfile.readFileSync cannot
\* read.  userAssets is the set of names in DEFAULT_USER_ASSETS.  calls
\* records, for every call of convertLegacyAssets that has ended, what it
\* found and did.

\* Line 32: the characters of CONVERT_LEGACY_ALLOWED_CHARS.
CONVERT_LEGACY_ALLOWED_CHARS ==
  {"A", "B", "C", "D", "E", "F", "G", "H", "I", "J", "K", "L", "M", "N", "O", "P",
   "Q", "R", "S", "T", "U", "V", "W", "x", "Y", "Z", "a", "b", "c", "d", "e", "f",
   "g", "h", "i", "j", "k", "l", "n", "o", "p", "q", "r", "s", "t", "u", "v", "w",
   "x", "y", "z", "0", "1", "2", "3", "4", "5", "6", "7", "8", "9"}

dotJson == <<".", "j", "s", "o", "n">>
dotPng == <<".", "p", "n", "g">>

\* Line 79: file.split("_").slice(1).join("_").split(".").slice(0, -1).join(".")
LegacyTitle(file) ==
  LET parts == Split(JoinWith(Tail(Split(file, "_")), "_"), ".")
  IN JoinWith(SubSeq(parts, 1, Len(parts) - 1), ".")

IsAllowedChar(x) == x \in CONVERT_LEGACY_ALLOWED_CHARS

\* Lines 87-95: the name of the target folder in DEFAULT_USER_ASSETS.
LegacyTarget(file) ==
  Split(file, "_")[1] \o <<"_">> \o SelectSeq(LegacyTitle(file), IsAllowedChar)

\* Lines 100-115: the file whose copy makes the target's image or model.
LegacySource(file) ==
  CASE Classify(file) = "field2d" -> Field2dPrefix \o LegacyTitle(file) \o dotPng
    [] Classify(file) = "field3d" -> Field3dPrefix \o LegacyTitle(file) \o dotGlb
    [] Classify(file) = "robot" -> RobotPrefix \o LegacyTitle(file) \o dotGlb
    [] Classify(file) = "joystick" -> JoystickPrefix \o LegacyTitle(file) \o dotPng

\* Lines 77-126, the callback on one entry: made is the set of target
\* folders created so far and threw whether an earlier entry has raised.
\* jsonfile.readFileSync raises on a file that cannot be read (line 80) and
\* fs.copyFileSync on a source that does not exist (lines 101-114), after
\* the target folder was made (line 97).
ConvertFile(done, file) ==
  IF done.threw \/ ~EndsWith(file, dotJson) THEN done
  ELSE IF file \in legacy.bad THEN [done EXCEPT !.threw = TRUE]
  ELSE IF LegacyTarget(file) \in userAssets \cup done.made THEN done
  ELSE [ made |-> done.made \cup {LegacyTarget(file)},
         threw |-> Classify(file) # "none" /\ LegacySource(file) \notin legacy.files ]

RECURSIVE ConvertAll(_, _)
\* Lines 77-126: the forEach over the entries in the order readdirSync gave.
ConvertAll(order, done) ==
  IF order = <<>> THEN done ELSE ConvertAll(Tail(order), ConvertFile(done, Head(order)))

\* The call that deletes the legacy folder when the dialog is cancelled.
ConvertOutcome_DeleteOnCancel(button, order) ==
  IF ~legacy.exists
  THEN [found |-> FALSE, prompted |-> FALSE, button |-> -1, threw |-> FALSE, made |-> {}, deleted |-> FALSE]
  ELSE IF Cardinality({x \in legacy.files : ~StartsWith(x, <<".">>)}) <= 1
  THEN [found |-> TRUE, prompted |-> FALSE, button |-> -1, threw |-> FALSE, made |-> {}, deleted |-> TRUE]
  ELSE IF button # 0
  THEN [found |-> TRUE, prompted |-> TRUE, button |-> button, threw |-> FALSE, made |-> {}, deleted |-> TRUE]
  ELSE LET done == ConvertAll(order, [made |-> {}, threw |-> FALSE])
       IN [found |-> TRUE, prompted |-> TRUE, button |-> button, threw |-> done.threw,
           made |-> done.made, deleted |-> ~done.threw]

\* What one call does, for the button the dialog returns and the order
\* readdirSync lists the entries in.
ConvertOutcome(button, order) ==
  IF ~legacy.exists
  THEN [found |-> FALSE, prompted |-> FALSE, button |-> -1, threw |-> FALSE, made |-> {}, deleted |-> FALSE]
  ELSE IF Cardinality({x \in legacy.files : ~StartsWith(x, <<".">>)}) <= 1
  THEN [found |-> TRUE, prompted |-> FALSE, button |-> -1, threw |-> FALSE, made |-> {}, deleted |-> TRUE]
  ELSE IF button # 0
  THEN [found |-> TRUE, prompted |-> TRUE, button |-> button, threw |-> FALSE, made |-> {}, deleted |-> FALSE]
  ELSE LET done == ConvertAll(order, [made |-> {}, threw |-> FALSE])
       IN [found |-> TRUE, prompted |-> TRUE, button |-> button, threw |-> done.threw,
           made |-> done.made, deleted |-> ~done.threw]

\* The orders a set of entries can be listed in.
Orders(S) == {f \in [1..Cardinality(S) -> S] : \A x \in S : \E i \in DOMAIN f : f[i] = x}

\* One call of convertLegacyAssets, from its first line to its return or to
\* the exception it raises.
ConvertLegacyAssets ==
  /\ Len(calls) < MaxCalls
  /\ \E button \in {0, 1}, order \in Orders(legacy.files) :
       \E out \in {ConvertOutcome(button, order)} :
         /\ legacy' = IF out.deleted THEN [exists |-> FALSE, files |-> {}, bad |-> {}] ELSE legacy
         /\ userAssets' = userAssets \cup out.made
         /\ calls' = Append(calls, [ found |-> out.found, visible |-> {x \in legacy.files : ~StartsWith(x, <<".">>)},
                                     prompted |-> out.prompted, button |-> out.button,
                                     threw |-> out.threw, made |-> out.made,
                                     left |-> legacy.exists /\ ~out.deleted ])
  /\ UNCHANGED loadVars

NextLegacy == ConvertLegacyAssets

\* The entries of the legacy folder: the files of a 2D field and of a robot,
\* a joystick that has no image, a text file and a hidden file.
LegacyFiles ==
  { <<"F", "i", "e", "l", "d", "2", "d", "_", "A", ".", "j", "s", "o", "n">>,
    <<"F", "i", "e", "l", "d", "2", "d", "_", "A", ".", "p", "n", "g">>,
    <<"R", "o", "b", "o", "t", "_", "B", ".", "j", "s", "o", "n">>,
    <<"R", "o", "b", "o", "t", "_", "B", ".", "g", "l", "b">>,
    <<"J", "o", "y", "s", "t", "i", "c", "k", "_", "C", ".", "j", "s", "o", "n">>,
    <<"n", "o", "t", "e", "s", ".", "t", "x", "t">>,
    <<".", "D", "S", "_", "S", "t", "o", "r", "e">> }

\* The conversion starts with no legacy folder, or with one of at most
\* MaxEntries entries, some of its .json files unreadable; the folder
\* Robot_B may be in the user folder already.
InitLegacy ==
  /\ \/ legacy = [exists |-> FALSE, files |-> {}, bad |-> {}]
     \/ \E files \in SubsetsUpTo(LegacyFiles, MaxEntries) :
          \E bad \in SUBSET {x \in files : EndsWith(x, dotJson)} :
            legacy = [exists |-> TRUE, files |-> files, bad |-> bad]
  /\ userAssets \in {{}, {RobotPrefix \o <<"B">>}}
  /\ calls = <<>>
  /\ platform = "posix"
  /\ fs = [r \in 1..3 |-> {}]
  /\ pc = "scan"
  /\ rootIdx = 0
  /\ listing = <<>>
  /\ assets = EmptyAssets
  /\ visited = <<>>

SpecLegacy == InitLegacy /\ [][NextLegacy]_vars

TypeOK ==
  /\ pc \in {"scan", "done", "threw"}
  /\ rootIdx \in 0..3

(***************************************************************************)
(* Properties of the result                                                *)
(***************************************************************************)
Count(x, list) == Cardinality({i \in 1..Len(list) : list[i] = x})

Returned == pc = "done"

\* The candidate visited[i] is the backing directory of a returned record.
Backing(i) ==
  /\ visited[i].status = "admit"
  /\ \E k \in 1..Len(assets[CollectionOf(visited[i].kind)]) :
       assets[CollectionOf(visited[i].kind)][k].path = visited[i].path

\* The candidate visited[i] was admitted after a candidate of its kind with
\* its display name.
Shadowed(i) ==
  /\ visited[i].status = "admit"
  /\ \E j \in 1..(i - 1) :
       /\ visited[j].status = "admit"
       /\ visited[j].kind = visited[i].kind
       /\ visited[j].name = visited[i].name

\* The candidates of a name that were not admitted.
NotAdmitted(dirName) ==
  {i \in 1..Len(visited) : visited[i].dir = dirName /\ visited[i].status # "admit"}

\* The candidate visited[i] is the only candidate of its directory name.
OnlyOfItsName(i) == \A j \in 1..Len(visited) : visited[j].dir = visited[i].dir => j = i

\* C1 as claimed: in the result every scanned directory either backs a
\* returned record or has its name in loadFailures, never neither, and (where
\* the name stands for one directory only) never both.
C1_BackingXorFailure ==
  Returned =>
    \A i \in 1..Len(visited) :
      LET inFailures == Count(visited[i].dir, assets.loadFailures) > 0
      IN /\ Backing(i) \/ inFailures
         /\ OnlyOfItsName(i) => ~(Backing(i) /\ inFailures)

\* C1 as amended: in the result every scanned directory is accounted for in
\* exactly one way: it backs a returned record, or it was admitted and its
\* record dropped as a duplicate of an earlier-scanned record of its kind
\* and display name, or it was not admitted and accounts for one entry of its
\* name in loadFailures.
C1_Accounted ==
  Returned =>
    /\ \A i \in 1..Len(visited) :
         visited[i].status = "admit" => (Backing(i) # Shadowed(i))
    /\ \A i \in 1..Len(visited) :
         Count(visited[i].dir, assets.loadFailures) = Cardinality(NotAdmitted(visited[i].dir))
    /\ \A k \in 1..Len(assets.loadFailures) : NotAdmitted(assets.loadFailures[k]) # {}

\* A result with a backing directory, a shadowed one and a failing one.
C1_Witness ==
  /\ Returned
  /\ \E i, j, k \in 1..Len(visited) :
       Backing(i) /\ Shadowed(j) /\ ~Backing(j) /\ visited[k].status = "fail"

\* The admitted candidates of the kind and display name of visited[i].
SameRecord(i) ==
  {j \in 1..Len(visited) :
     /\ visited[j].status = "admit"
     /\ visited[j].kind = visited[i].kind
     /\ visited[j].name = visited[i].name}

\* C3: when admitted records of one kind and one display name lie in two
\* folders, the result holds exactly one record of that name in the kind's
\* collection, and it is a record of the folder of highest priority.
C3_HigherPriorityRootWins ==
  Returned =>
    \A i, j \in 1..Len(visited) :
      (j \in SameRecord(i) /\ visited[i].root < visited[j].root) =>
        LET coll == assets[CollectionOf(visited[i].kind)]
            named == {k \in 1..Len(coll) : coll[k].name = visited[i].name}
            best == CHOOSE r \in Roots :
                      /\ \E m \in SameRecord(i) : visited[m].root = r
                      /\ \A m \in SameRecord(i) : visited[m].root >= r
        IN /\ Cardinality(named) = 1
           /\ \A k \in named :
                /\ \E m \in SameRecord(i) : visited[m].root = best /\ visited[m].path = coll[k].path
                /\ StartsWith(coll[k].path, encodePath(ParentFolders[best]) \o <<sep>>)

\* A result where a display name is admitted in two folders, twice in the
\* folder of lower priority.
C3_Witness ==
  /\ Returned
  /\ \E i, j, k \in 1..Len(visited) :
       /\ j \in SameRecord(i) /\ k \in SameRecord(i)
       /\ visited[i].root < visited[j].root
       /\ visited[j].root = visited[k].root
       /\ j # k

\* C4 as claimed: the name of a directory that no prefix matches is not in
\* loadFailures in the result.
C4_UnprefixedNotInFailures ==
  Returned =>
    \A i \in 1..Len(visited) :
      visited[i].kind = "none" => Count(visited[i].dir, assets.loadFailures) = 0

\* C4 as amended: a directory that no prefix matches is never admitted to a
\* collection, and its name is left in loadFailures, one entry for each such
\* directory, whether or not it holds a config.json.
C4_UnprefixedStaysFailure ==
  Returned =>
    \A i \in 1..Len(visited) :
      visited[i].kind = "none" =>
        /\ visited[i].status = "fail"
        /\ ~Backing(i)
        /\ Count(visited[i].dir, assets.loadFailures)
             >= Cardinality({j \in 1..Len(visited) :
                               visited[j].kind = "none" /\ visited[j].dir = visited[i].dir})

\* A result after the visit of an unprefixed directory that holds a usable
\* config.json and of a directory that was admitted.
C4_Witness ==
  /\ Returned
  /\ \E i, j \in 1..Len(visited) :
       /\ visited[i].kind = "none"
       /\ \E e \in fs[visited[i].root] : e.name = visited[i].dir /\ ConfigUsable(e.config)
       /\ Backing(j)

NamesOf(list) == [k \in 1..Len(list) |-> list[k].name]

NameSet(list) == {list[k].name : k \in 1..Len(list)}

\* C7 as claimed: field2ds is in ascending order of name (by code units),
\* but for a record named Evergreen, which is last.
C7_Field2dsAscending ==
  Returned =>
    \A k \in 1..(Len(assets.field2ds) - 1) :
      \/ assets.field2ds[k + 1].name = sEvergreen
      \/ /\ assets.field2ds[k].name # sEvergreen
         /\ StrLess(assets.field2ds[k].name, assets.field2ds[k + 1].name)

\* C7 as amended: field2ds is in descending order of name (by code units),
\* but for a record named Evergreen, which is last: Alpha, Evergreen and Zeta
\* are returned as Zeta, Alpha, Evergreen.
C7_Field2dsDescending ==
  Returned =>
    /\ \A k \in 1..(Len(assets.field2ds) - 1) :
         \/ assets.field2ds[k + 1].name = sEvergreen
         \/ /\ assets.field2ds[k].name # sEvergreen
            /\ StrLess(assets.field2ds[k + 1].name, assets.field2ds[k].name)
    /\ NameSet(assets.field2ds) = {sAlpha, sEvergreen, sZeta}
         => NamesOf(assets.field2ds) = <<sZeta, sAlpha, sEvergreen>>

\* The three names, scanned in the order Evergreen, Alpha, Zeta, are returned.
C7_Witness ==
  /\ Returned
  /\ Len(visited) = 3
  /\ visited[1].name = sEvergreen /\ visited[2].name = sAlpha /\ visited[3].name = sZeta
  /\ NamesOf(assets.field2ds) = <<sZeta, sAlpha, sEvergreen>>

\* The number a robot name of the form "Robot <digits>" ends with.
RobotNumber(name) == DigitsValue(SubSeq(name, Len(sRobotSpace) + 1, Len(name)))

\* C10: robots is in ascending order of name with embedded numbers compared
\* by value: Robot 2, Robot 10 and Robot 1 are returned as Robot 1, Robot 2,
\* Robot 10.
C10_RobotsNumericAscending ==
  Returned =>
    /\ \A k \in 1..(Len(assets.robots) - 1) :
         RobotNumber(assets.robots[k].name) < RobotNumber(assets.robots[k + 1].name)
    /\ NameSet(assets.robots) = {sRobot1, sRobot2, sRobot10}
         => NamesOf(assets.robots) = <<sRobot1, sRobot2, sRobot10>>

\* The three robots, scanned in the order Robot 2, Robot 10, Robot 1, are
\* returned.
C10_Witness ==
  /\ Returned
  /\ Len(visited) = 3
  /\ visited[1].name = sRobot2 /\ visited[2].name = sRobot10 /\ visited[3].name = sRobot1
  /\ NamesOf(assets.robots) = <<sRobot1, sRobot2, sRobot10>>

\* The entry of the file system the candidate visited[i] stands for.
EntryOf(i) == CHOOSE e \in fs[visited[i].root] : e.name = visited[i].dir

\* The descriptor holds `key` as a string that is not empty.
RawNonEmptyString(raw, key) ==
  raw.t = "object" /\ key \in DOMAIN raw.o /\ raw.o[key].t = "string" /\ Len(raw.o[key].s) > 0

\* The descriptor holds `key` as a number.
RawNumber(raw, key) == raw.t = "object" /\ key \in DOMAIN raw.o /\ raw.o[key].t = "number"

\* The descriptor holds `key` as an array of n numbers.
RawNumbers(raw, key, n) ==
  /\ raw.t = "object" /\ key \in DOMAIN raw.o /\ raw.o[key].t = "array"
  /\ Len(raw.o[key].a) = n
  /\ \A k \in 1..n : raw.o[key].a[k].t = "number"

\* The descriptor gives a corner with both coordinates at least 0.
RawCorner(raw, key) ==
  RawNumbers(raw, key, 2) /\ \A k \in 1..2 : raw.o[key].a[k].n >= 0

\* The 2D field acceptance conditions other than the one on topLeft.
Field2dOthersHold(e) ==
  /\ RawNonEmptyString(e.config, "name")
  /\ RawCorner(e.config, "bottomRight")
  /\ RawNumber(e.config, "widthInches") /\ e.config.o["widthInches"].n > 0
  /\ RawNumber(e.config, "heightInches") /\ e.config.o["heightInches"].n > 0
  /\ imagePng \in e.files

\* C8: a 2D field candidate is admitted only if its name is not empty, its
\* four corner coordinates are at least 0, its width and height are above 0
\* and image.png exists; a candidate that is not admitted (one without a well
\* shaped topLeft among them) stays in loadFailures.
C8_Field2dAdmission ==
  \A i \in 1..Len(visited) :
    visited[i].kind = "field2d" =>
      /\ visited[i].status \in {"admit", "fail"}
      /\ visited[i].status = "admit" =>
           RawCorner(EntryOf(i).config, "topLeft") /\ Field2dOthersHold(EntryOf(i))
      /\ visited[i].status = "fail" =>
           /\ Count(visited[i].dir, assets.loadFailures) > 0
           /\ \A k \in 1..Len(assets.field2ds) : assets.field2ds[k].path # visited[i].path
      /\ ~RawNumbers(EntryOf(i).config, "topLeft", 2) => visited[i].status = "fail"

\* A result where one 2D field was admitted and another, which meets every
\* condition but leaves topLeft unset, was rejected.
C8_Witness ==
  /\ Returned
  /\ \E i, j \in 1..Len(visited) :
       /\ visited[i].kind = "field2d" /\ visited[i].status = "admit"
       /\ visited[j].kind = "field2d" /\ visited[j].status = "fail"
       /\ Field2dOthersHold(EntryOf(j))
       /\ "topLeft" \notin DOMAIN EntryOf(j).config.o
       /\ Count(visited[j].dir, assets.loadFailures) = 1

\* The descriptor's element c, when it selects a variant, passes the test of
\* that variant: a button or an axis has a width and a height above 0 and a
\* sourceIndex of at least 0, a joystick a radius above 0 and x and y source
\* indexes of at least 0.
RawComponentOk(c) ==
  IF c.t # "object" \/ "type" \notin DOMAIN c.o \/ c.o["type"].t # "string" THEN TRUE
  ELSE IF c.o["type"].s \in {sButton, sAxis}
       THEN /\ RawNumbers(c, "sizePx", 2)
            /\ \A k \in 1..2 : c.o["sizePx"].a[k].n > 0
            /\ RawNumber(c, "sourceIndex") /\ c.o["sourceIndex"].n >= 0
  ELSE IF c.o["type"].s = sJoystick
       THEN /\ RawNumber(c, "radiusPx") /\ c.o["radiusPx"].n > 0
            /\ RawNumber(c, "xSourceIndex") /\ c.o["xSourceIndex"].n >= 0
            /\ RawNumber(c, "ySourceIndex") /\ c.o["ySourceIndex"].n >= 0
  ELSE TRUE

\* The elements of the descriptor's components, none when it has no array
\* of that name.
RawComponents(raw) ==
  IF raw.t = "object" /\ "components" \in DOMAIN raw.o /\ raw.o["components"].t = "array"
  THEN raw.o["components"].a ELSE <<>>

\* The descriptor has a button whose sizePx is [0, 5].
HasZeroWidthButton(raw) ==
  \E k \in 1..Len(RawComponents(raw)) :
    /\ RawComponents(raw)[k].t = "object"
    /\ "type" \in DOMAIN RawComponents(raw)[k].o
    /\ RawComponents(raw)[k].o["type"] = JStr(sButton)
    /\ "sizePx" \in DOMAIN RawComponents(raw)[k].o
    /\ RawComponents(raw)[k].o["sizePx"] = Pair(0, 5)

\* C9: a joystick candidate is admitted only if its name is not empty,
\* image.png exists and every constructed component passes the test of its
\* variant; a candidate with a button of sizePx [0, 5] is never admitted, and
\* a candidate that is not admitted stays in loadFailures.
C9_JoystickAdmission ==
  \A i \in 1..Len(visited) :
    visited[i].kind = "joystick" =>
      /\ visited[i].status = "admit" =>
           /\ RawNonEmptyString(EntryOf(i).config, "name")
           /\ imagePng \in EntryOf(i).files
           /\ \A k \in 1..Len(RawComponents(EntryOf(i).config)) :
                RawComponentOk(RawComponents(EntryOf(i).config)[k])
      /\ HasZeroWidthButton(EntryOf(i).config) => visited[i].status # "admit"
      /\ visited[i].status = "fail" =>
           /\ Count(visited[i].dir, assets.loadFailures) > 0
           /\ \A k \in 1..Len(assets.joysticks) : assets.joysticks[k].path # visited[i].path

\* A result where a joystick whose one component is a button of sizePx
\* [0, 5], with a name, a sourceIndex and image.png, was rejected and stays
\* in loadFailures.
C9_Witness ==
  /\ Returned
  /\ \E i \in 1..Len(visited) :
       /\ visited[i].kind = "joystick" /\ visited[i].status = "fail"
       /\ RawNonEmptyString(EntryOf(i).config, "name")
       /\ imagePng \in EntryOf(i).files
       /\ RawComponents(EntryOf(i).config) = <<Button(Pair(0, 5), JNum(0))>>
       /\ Count(visited[i].dir, assets.loadFailures) = 1
       /\ assets.joysticks = <<>>

\* The number of entries of the descriptor's array `key`.
RawCount(raw, key) ==
  IF raw.t = "object" /\ key \in DOMAIN raw.o /\ raw.o[key].t = "array"
  THEN Len(raw.o[key].a) ELSE 0

\* The name of the collection's array of sub-objects that have a model file
\* each: gamePieces for a 3D field, components for a robot.
PartsKey(kind) == IF kind = "field3d" THEN "gamePieces" ELSE "components"

\* The acceptance conditions of a 3D field or a robot other than the one on
\* the files model_<k>.glb.
ModelOthersHold(kind, e) ==
  /\ RawNonEmptyString(e.config, "name")
  /\ kind = "field3d" =>
       /\ RawNumber(e.config, "widthInches") /\ e.config.o["widthInches"].n > 0
       /\ RawNumber(e.config, "heightInches") /\ e.config.o["heightInches"].n > 0
  /\ kind = "robot" =>
       \A k \in 1..RawCount(e.config, "cameras") :
         RawNonEmptyString(e.config.o["cameras"].a[k], "name")
  /\ modelGlb \in e.files

\* The files model_0.glb ... model_(N-1).glb of the N sub-objects all exist.
AuxFilesPresent(kind, e) ==
  \A k \in 0..(RawCount(e.config, PartsKey(kind)) - 1) : AuxFile(k) \in e.files

\* C6: a 3D field with N game pieces, or a robot with N components, whose
\* other acceptance conditions hold is admitted if and only if the files
\* model_0.glb ... model_(N-1).glb all exist beside model.glb; when one is
\* missing the candidate is in no collection and its directory name stays in
\* loadFailures.
C6_AuxiliaryModels ==
  \A i \in 1..Len(visited) :
    (visited[i].kind \in {"field3d", "robot"} /\ ModelOthersHold(visited[i].kind, EntryOf(i))) =>
      /\ visited[i].status = "admit" <=> AuxFilesPresent(visited[i].kind, EntryOf(i))
      /\ ~AuxFilesPresent(visited[i].kind, EntryOf(i)) =>
           /\ visited[i].status = "fail"
           /\ Count(visited[i].dir, assets.loadFailures) > 0
           /\ \A k \in 1..Len(assets[CollectionOf(visited[i].kind)]) :
                assets[CollectionOf(visited[i].kind)][k].path # visited[i].path

\* A result where a robot with two components, a name, model.glb and
\* model_0.glb, but no model_1.glb, was rejected and stays in loadFailures.
C6_Witness ==
  /\ Returned
  /\ \E i \in 1..Len(visited) :
       /\ visited[i].kind = "robot" /\ visited[i].status = "fail"
       /\ ModelOthersHold("robot", EntryOf(i))
       /\ RawCount(EntryOf(i).config, "components") = 2
       /\ EntryOf(i).files = {modelGlb, AuxFile(0)}
       /\ Count(visited[i].dir, assets.loadFailures) = 1

\* The candidate visited[i] is one of the two valid companions.
IsCompanion(i) == \E c \in Companions : c.root = visited[i].root /\ c.name = visited[i].dir

\* C2 as claimed: whatever the content of a candidate's config.json,
\* loadAssets raises no exception, and in its result the other candidates,
\* which are valid, are admitted as they are without the malformed one.
C2_NoErrorIsFatal ==
  /\ pc # "threw"
  /\ Returned => \A i \in 1..Len(visited) : IsCompanion(i) => Backing(i)

\* The value is a list of rotations: an array of objects with an axis among
\* x, y, z and a number of degrees.
IsRotationList(v) ==
  /\ v.t = "array"
  /\ \A k \in 1..Len(v.a) :
       /\ v.a[k].t = "object"
       /\ "axis" \in DOMAIN v.a[k].o /\ "degrees" \in DOMAIN v.a[k].o
       /\ v.a[k].o["axis"].t = "string" /\ v.a[k].o["axis"].s \in {<<"x">>, <<"y">>, <<"z">>}
       /\ v.a[k].o["degrees"].t = "number"

\* The value has the shape the top-level field `key` is read with.
WellShaped(key, v) ==
  CASE key \in {"name", "sourceUrl"} -> v.t = "string"
    [] key \in {"widthInches", "heightInches"} -> v.t = "number"
    [] key = "disableSimplification" -> v.t = "boolean"
    [] key = "rotations" -> IsRotationList(v)
    [] key \in {"gamePieces", "cameras", "components"} -> v.t = "array"
    [] key = "position" ->
         v.t = "array" /\ Len(v.a) = 3 /\ \A k \in 1..3 : v.a[k].t = "number"
    [] key \in {"topLeft", "bottomRight"} ->
         v.t = "array" /\ Len(v.a) = 2 /\ \A k \in 1..2 : v.a[k].t = "number"
    [] OTHER -> TRUE

\* The fields the overlay of a kind reads at the top level.
Recognized(kind) ==
  CASE kind = "field2d" -> {"name", "sourceUrl", "topLeft", "bottomRight", "widthInches", "heightInches"}
    [] kind = "field3d" -> {"name", "sourceUrl", "rotations", "widthInches", "heightInches", "gamePieces"}
    [] kind = "robot" -> {"name", "sourceUrl", "disableSimplification", "rotations", "position",
                          "cameras", "components"}
    [] kind = "joystick" -> {"name", "components"}
    [] OTHER -> {}

\* The entry with `key` taken out of its descriptor.
Without(e, key) ==
  [e EXCEPT !.config = JObj([k \in (DOMAIN e.config.o) \ {key} |-> e.config.o[k]])]

\* C5 as claimed: a recognized top-level field of a wrong shape is treated
\* as an absent one: no exception is raised, and the candidate's outcome and
\* record are those of the descriptor without the field.
C5_WrongShapeIsAbsent ==
  \A i \in 1..Len(visited) :
    EntryOf(i).config.t = "object" =>
      \A key \in DOMAIN EntryOf(i).config.o \cap Recognized(visited[i].kind) :
        ~WellShaped(key, EntryOf(i).config.o[key]) =>
          /\ visited[i].status # "throw"
          /\ Process(ParentFolders[visited[i].root], EntryOf(i))
               = Process(ParentFolders[visited[i].root], Without(EntryOf(i), key))

\* The string has the character c.
HasChar(str, c) == \E k \in 1..Len(str) : str[k] = c

\* The path of image.png in the directory visited[i], as path.join gives it.
ImagePathOf(i) ==
  ParentFolders[visited[i].root] \o <<sep>> \o visited[i].dir \o <<sep>> \o imagePng

\* C11: the path of a record is the path of its file with every segment
\* percent-encoded on its own, but for a leading drive letter, and the
\* separators kept: it has no space and no "#", it has the segments of the
\* file's path one for one, and percent-decoding it as a whole, as the
\* admission does, gives the file's path back, so that the record of a
\* valid directory is admitted whatever characters its name has.
C11_EncodePathRoundTrip ==
  \A i \in 1..Len(visited) :
    visited[i].dir \in PathNames =>
      /\ visited[i].status = "admit"
      /\ ~HasChar(visited[i].path, " ") /\ ~HasChar(visited[i].path, "#")
      /\ decodeURIComponent(visited[i].path) = [ok |-> TRUE, text |-> ImagePathOf(i)]
      /\ Len(Split(visited[i].path, sep)) = Len(Split(ImagePathOf(i), sep))
      /\ \A k \in 1..Len(Split(ImagePathOf(i), sep)) :
           decodeURIComponent(Split(visited[i].path, sep)[k])
             = [ok |-> TRUE, text |-> Split(ImagePathOf(i), sep)[k]]
      /\ platform = "win32" => Split(visited[i].path, sep)[1] = <<"C", ":">>

\* A result on win32 with the record of the directory "Field2d_ #" of the
\* user folder "C:\u\my a": its path keeps "C:" and has %20 twice and %23.
C11_Witness ==
  /\ Returned
  /\ platform = "win32"
  /\ \E i \in 1..Len(visited) :
       /\ visited[i].root = 1
       /\ visited[i].dir = Field2dPrefix \o <<" ", "#">>
       /\ visited[i].status = "admit"
       /\ visited[i].path =
            <<"C", ":", "\\", "u", "\\", "m", "y", "%", "2", "0", "a", "\\">>
              \o Field2dPrefix \o <<"%", "2", "0", "%", "2", "3", "\\">> \o imagePng
       /\ \E k \in 1..Len(assets.field2ds) : assets.field2ds[k].path = visited[i].path

\* The paths of the candidates of a kind admitted so far, in scan order.
AdmittedPaths(kind) ==
  LET admitted[i \in 0..Len(visited)] ==
        IF i = 0 THEN <<>>
        ELSE IF visited[i].kind = kind /\ visited[i].status = "admit"
        THEN Append(admitted[i - 1], visited[i].path)
        ELSE admitted[i - 1]
  IN admitted[Len(visited)]

\* The paths of the records of a list.
PathsOf(list) == [k \in 1..Len(list) |-> list[k].path]

\* C12: after each candidate, and in the result, loadFailures has of every
\* directory name as many entries as there are visited candidates of that
\* name that were not admitted, one entry per failing directory, and until
\* the duplicates are removed each collection holds the records of the
\* admitted candidates of its kind, in scan order: no admission removes the
\* entry of another candidate.
C12_FailureBookkeeping ==
  /\ \A n \in {visited[i].dir : i \in 1..Len(visited)} \cup {assets.loadFailures[k] : k \in 1..Len(assets.loadFailures)} :
       Count(n, assets.loadFailures)
         = Cardinality({i \in 1..Len(visited) : visited[i].dir = n /\ visited[i].status # "admit"})
  /\ pc = "scan" =>
       \A kind \in {"field2d", "field3d", "robot", "joystick"} :
         PathsOf(assets[CollectionOf(kind)]) = AdmittedPaths(kind)

\* A result where a directory name failed in the first two folders and was
\* admitted in the third: loadFailures holds the name twice, the admission
\* having removed one of the three entries of that name.
C12_Witness ==
  /\ Returned
  /\ Len(visited) = 3
  /\ visited[1].dir = visited[2].dir /\ visited[2].dir = visited[3].dir
  /\ visited[1].status = "fail" /\ visited[2].status = "fail" /\ visited[3].status = "admit"
  /\ assets.loadFailures = <<visited[1].dir, visited[1].dir>>
  /\ Backing(3)

\* The candidates visited[i] and visited[j] are admitted records of one
\* folder, one kind and one display name.
SameRootTwins(i, j) ==
  /\ visited[i].root = visited[j].root
  /\ visited[i].kind = visited[j].kind
  /\ visited[i].status = "admit" /\ visited[j].status = "admit"
  /\ visited[i].name = visited[j].name

\* C13: the candidates of one folder are visited in descending order of
\* directory name, and of the admitted records of one folder, one kind and
\* one display name only the one with the greatest directory name can be
\* retained: it is, unless a folder of higher priority has that name.
C13_GreaterDirectoryWins ==
  /\ \A i, j \in 1..Len(visited) :
       (i < j /\ visited[i].root = visited[j].root) => StrLess(visited[j].dir, visited[i].dir)
  /\ Returned =>
       \A i, j \in 1..Len(visited) :
         (SameRootTwins(i, j) /\ StrLess(visited[i].dir, visited[j].dir)) =>
           /\ ~Backing(i)
           /\ (\A k \in SameRecord(j) : visited[k].root >= visited[j].root)
                /\ (\A k \in 1..Len(visited) :
                      SameRootTwins(k, j) => ~StrLess(visited[j].dir, visited[k].dir))
                => Backing(j)

\* A result where Field2d_A and Field2d_B of one folder were both admitted
\* under one display name, and the record of Field2d_B is the one returned.
C13_Witness ==
  /\ Returned
  /\ \E i, j \in 1..Len(visited) :
       /\ SameRootTwins(i, j)
       /\ visited[i].dir = Field2dPrefix \o <<"A">>
       /\ visited[j].dir = Field2dPrefix \o <<"B">>
       /\ Backing(j) /\ ~Backing(i)
       /\ Len(assets.field2ds) = 1

\* The variant the descriptor's element c selects: "none" when its type is
\* missing, not a string, or none of button, joystick, axis.
RawVariant(c) ==
  IF c.t # "object" \/ "type" \notin DOMAIN c.o \/ c.o["type"].t # "string" THEN "none"
  ELSE IF c.o["type"].s = sButton THEN "button"
  ELSE IF c.o["type"].s = sJoystick THEN "joystick"
  ELSE IF c.o["type"].s = sAxis THEN "axis"
  ELSE "none"

\* The variants of the elements that select one, in the descriptor's order.
KeptVariants(elems) ==
  LET kept[i \in 0..Len(elems)] ==
        IF i = 0 THEN <<>>
        ELSE IF RawVariant(elems[i]) = "none" THEN kept[i - 1]
        ELSE Append(kept[i - 1], RawVariant(elems[i]))
  IN kept[Len(elems)]

\* C14: for a joystick descriptor whose components are objects, the
\* components of no known type take no part: the candidate is admitted if
\* and only if its name is not empty, image.png exists and the components of
\* a known type pass their tests, and the record's components are those of
\* a known type, in the descriptor's order.
C14_UnknownComponentsDropped ==
  \A i \in 1..Len(visited) :
    (/\ visited[i].kind = "joystick"
     /\ EntryOf(i).config.t = "object"
     /\ \A k \in 1..Len(RawComponents(EntryOf(i).config)) :
          RawComponents(EntryOf(i).config)[k].t = "object") =>
      /\ visited[i].status = "admit" <=>
           /\ RawNonEmptyString(EntryOf(i).config, "name")
           /\ imagePng \in EntryOf(i).files
           /\ \A k \in 1..Len(RawComponents(EntryOf(i).config)) :
                RawVariant(RawComponents(EntryOf(i).config)[k]) # "none"
                  => RawComponentOk(RawComponents(EntryOf(i).config)[k])
      /\ \A k \in 1..Len(assets.joysticks) :
           assets.joysticks[k].path = visited[i].path =>
             [c \in 1..Len(assets.joysticks[k].components) |-> assets.joysticks[k].components[c].type]
               = KeptVariants(RawComponents(EntryOf(i).config))

\* A result where a joystick whose components are one of the unknown type
\* "dpad", with a sizePx of [0, 0], and a valid button was admitted with the
\* button as its one component.
C14_Witness ==
  /\ Returned
  /\ \E i \in 1..Len(visited) :
       /\ visited[i].kind = "joystick" /\ visited[i].status = "admit"
       /\ Len(RawComponents(EntryOf(i).config)) = 2
       /\ RawVariant(RawComponents(EntryOf(i).config)[1]) = "none"
       /\ "type" \in DOMAIN RawComponents(EntryOf(i).config)[1].o
       /\ RawComponents(EntryOf(i).config)[2] = Button(Pair(10, 5), JNum(0))
       /\ Len(assets.joysticks) = 1
       /\ Len(assets.joysticks[1].components) = 1
       /\ assets.joysticks[1].components[1].type = "button"

\* C15 as claimed: a call of convertLegacyAssets that finds the legacy
\* folder ends with the folder deleted, and no later call finds it, prompts
\* or converts.
C15_MigrationRunsOnce ==
  \A k \in 1..Len(calls) :
    calls[k].found =>
      /\ ~calls[k].left
      /\ \A j \in (k + 1)..Len(calls) :
           ~calls[j].found /\ ~calls[j].prompted /\ calls[j].made = {}

\* C15 as amended: a call that finds the legacy folder deletes it without a
\* prompt when the folder has at most one entry that is not hidden, and
\* otherwise prompts, and deletes it when the user continues and the
\* conversion ends without an exception; after that no call finds it,
\* prompts or converts.  When the user cancels, nothing is converted and the
\* folder stays; when the conversion raises, the folder stays; the next
\* call then finds it and prompts again.
C15_MigrationUntilDeleted ==
  /\ Len(calls) > 0 => (legacy.exists <=> calls[Len(calls)].left)
  /\ \A k \in 1..Len(calls) :
       /\ ~calls[k].found => ~calls[k].prompted /\ calls[k].made = {} /\ ~calls[k].left
       /\ calls[k].found =>
            /\ calls[k].prompted <=> Cardinality(calls[k].visible) >= 2
            /\ calls[k].left <=> (calls[k].prompted /\ (calls[k].button # 0 \/ calls[k].threw))
            /\ (calls[k].prompted /\ calls[k].button # 0) => calls[k].made = {}
       /\ ~calls[k].left => \A j \in (k + 1)..Len(calls) : ~calls[j].found
       /\ (calls[k].left /\ k < Len(calls)) => calls[k + 1].found /\ calls[k + 1].prompted

\* Three calls: the first prompts and is cancelled, and leaves the folder;
\* the second prompts again, converts the 2D field and deletes the folder;
\* the third finds no folder.
C15_Witness ==
  /\ Len(calls) = 3
  /\ calls[1].found /\ calls[1].prompted /\ calls[1].button = 1 /\ calls[1].left
  /\ calls[2].found /\ calls[2].prompted /\ calls[2].button = 0 /\ ~calls[2].left
  /\ calls[2].made = {Field2dPrefix \o <<"A">>}
  /\ ~calls[3].found /\ ~calls[3].prompted
  /\ ~legacy.exists

====
